---- MODULE Spec2Model ----
(***************************************************************************)
(* countersyncd: the process coordinator (main) that wires four actors     *)
(* with bounded tokio mpsc channels, spawns them, joins them and maps the  *)
(* join results to the process result.  The actors' run loops are not part *)
(* of main.rs; they are modelled from the design document.                 *)
(***************************************************************************)
EXTENDS Integers, Sequences, FiniteSets, TLC

\* ------------------------------------------------------------------ bounds
MaxFrames == 2        \* frames the Frame Source receives in a run
MaxRecs == 1          \* data records carried by one ordinary data frame
MaxTemplates == 1     \* template updates the Template Source publishes
MaxBatch == 2         \* records the reporter accumulates between two ticks
MaxStatsArg == 1      \* largest --max-stats-per-report value enumerated
BurstRecs == 102      \* records carried by the single frame of a burst run

\* ------------------------------------------------------- program constants
CommandCap == 1
SocketCap == 1
TemplateCap == 1
StatsCap == 100
DefaultStatsInterval == 10
DefaultMaxStats == 20

Actors == {"netlink", "ipfix", "swss", "reporter"}
Chans == {"command", "socket", "template", "stats"}

Cap_Uniform(c) == StatsCap

\* channel(n) of tokio::sync::mpsc: the capacity each channel is created with
Cap(c) ==
  CASE c = "command" -> CommandCap
    [] c = "socket" -> SocketCap
    [] c = "template" -> TemplateCap
    [] c = "stats" -> StatsCap

\* Option<T>
None == <<>>
Some(x) == <<x>>

VARIABLES
  args,              \* the parsed command line (struct Args) and whether parsing succeeded
  familyOk,          \* environment: the netlink family/group of the constants exists
  burst,             \* workload: one frame of BurstRecs records instead of small frames
  faults,            \* environment: actors may hit unrecoverable errors in this run
  mainPc,            \* main's position
  mainResult,        \* "running" until main returns, then its result
  actor,             \* per actor: none | built | running | ok | failed | dropped
  joinRes,           \* per actor: what main read from its join handle
  txOwner, rxOwner,  \* per channel: who holds the Sender / the Receiver
  queue,             \* per channel: the buffered messages, oldest first
  netlinkRecipients, \* channels registered with NetlinkActor::add_recipient
  ipfixRecipients,   \* channels registered with IpfixActor::add_recipient
  reporterCfg,       \* Option<StatsReporterConfig> of the constructed reporter
  netlinkPending,    \* Option<frame>: received from the socket, not yet forwarded
  framesSeen,        \* frames received from the socket so far
  sentFrames,        \* history: frames enqueued on the raw-frame channel
  takenFrames,       \* history: frames the Decoding Actor took from it
  doneFrames,        \* history: frames the Decoding Actor finished processing
  tmplSent,          \* template updates published so far
  tmplTable,         \* the Template table entry of the one (domain, template id):
                     \*   None, or Some(definition) of the Define that set it
  lastOp,            \* history: the last template operation applied, by arrival
  ipfixSets,         \* Sets of the frame in processing not yet walked
  lastDiag,          \* what the Decoding Actor's last step dropped with a diagnostic:
                     \*   none | frame | set | record
  ipfixCur,          \* Option<frame id> being processed by the Decoding Actor
  ipfixPending,      \* decoded records of that frame not yet delivered
  batch,             \* the reporter's current ReportBatch
  lastReport,        \* Option: the report handed to the sink at the last flush, until
                     \*   the next batch starts: records shown, count omitted
  firstFailed        \* history: the actor whose failure came first in time

vars == <<args, familyOk, burst, faults, mainPc, mainResult, actor, joinRes, txOwner, rxOwner,
          queue, netlinkRecipients, ipfixRecipients, reporterCfg, netlinkPending,
          framesSeen, sentFrames, takenFrames, doneFrames, tmplSent, tmplTable, lastOp,
          ipfixSets, lastDiag, ipfixCur, ipfixPending, batch, lastReport, firstFailed>>

mainVars == <<mainPc, mainResult, joinRes, reporterCfg>>
wiringVars == <<netlinkRecipients, ipfixRecipients>>
netlinkVars == <<netlinkPending, framesSeen, sentFrames>>
swssVars == <<tmplSent>>
ipfixVars == <<takenFrames, doneFrames, tmplTable, lastOp, ipfixSets, lastDiag, ipfixCur,
               ipfixPending>>
reporterVars == <<batch, lastReport>>
envVars == <<args, familyOk, burst, faults>>

\* ------------------------------------------------------------ command line
\* struct Args, restricted to the fields main reads after parsing.  parsed =
\* FALSE stands for a command line clap rejects (e.g. a non-numeric interval).
ArgsSet ==
  [parsed : BOOLEAN, enable_stats : BOOLEAN,
   stats_interval : {0, DefaultStatsInterval},
   detailed_stats : {TRUE},
   max_stats_per_report : (0..MaxStatsArg) \cup {DefaultMaxStats}]

\* The runs explored: every value of one setting with the others at their
\* defaults.  Runs with unrecoverable errors carry one frame, runs without
\* carry up to MaxFrames frames or one burst.
Scenario(a, fam, b, f) ==
  \/ /\ ~a.parsed /\ ~a.enable_stats /\ fam /\ ~b /\ f
     /\ a.stats_interval = DefaultStatsInterval /\ a.max_stats_per_report = DefaultMaxStats
  \/ /\ a.parsed /\ ~a.enable_stats /\ ~b /\ (fam \/ f)
     /\ a.stats_interval = DefaultStatsInterval /\ a.max_stats_per_report = DefaultMaxStats
  \/ /\ a.parsed /\ a.enable_stats /\ fam /\ ~b /\ ~f
     /\ a.stats_interval = DefaultStatsInterval /\ a.max_stats_per_report <= MaxStatsArg
  \/ /\ a.parsed /\ a.enable_stats /\ fam /\ ~b /\ f
     /\ a.stats_interval \in {0, DefaultStatsInterval}
     /\ a.max_stats_per_report = DefaultMaxStats
  \/ /\ a.parsed /\ fam /\ b /\ ~f
     /\ a.stats_interval = DefaultStatsInterval /\ a.max_stats_per_report = DefaultMaxStats

Init ==
  /\ args \in ArgsSet
  /\ familyOk \in BOOLEAN
  /\ burst \in BOOLEAN
  /\ faults \in BOOLEAN
  /\ Scenario(args, familyOk, burst, faults)
  /\ mainPc = "parse"
  /\ mainResult = "running"
  /\ actor = [a \in Actors |-> "none"]
  /\ joinRes = [a \in Actors |-> "pending"]
  /\ txOwner = [c \in Chans |-> "none"]
  /\ rxOwner = [c \in Chans |-> "none"]
  /\ queue = [c \in Chans |-> <<>>]
  /\ netlinkRecipients = {}
  /\ ipfixRecipients = {}
  /\ reporterCfg = None
  /\ netlinkPending = None
  /\ framesSeen = 0
  /\ sentFrames = <<>>
  /\ takenFrames = <<>>
  /\ doneFrames = <<>>
  /\ tmplSent = 0
  /\ tmplTable = None
  /\ lastOp = None
  /\ ipfixSets = <<>>
  /\ lastDiag = "none"
  /\ ipfixCur = None
  /\ ipfixPending = 0
  /\ batch = <<>>
  /\ lastReport = None
  /\ firstFailed = "none"

\* ------------------------------------------------------------------ helpers
\* Every endpoint held by owner o is dropped; a dropped Receiver destroys what
\* its channel still buffers.
DropEndsOf(os) ==
  /\ txOwner' = [c \in Chans |-> IF txOwner[c] \in os THEN "dropped" ELSE txOwner[c]]
  /\ rxOwner' = [c \in Chans |-> IF rxOwner[c] \in os THEN "dropped" ELSE rxOwner[c]]
  /\ queue' = [c \in Chans |-> IF rxOwner[c] \in os THEN <<>> ELSE queue[c]]

\* Sender::send on channel c resolves at once with an error: the Receiver is gone
SendFails(c) == rxOwner[c] = "dropped"
\* Sender::send on channel c can enqueue now
SendFits(c) == rxOwner[c] # "dropped" /\ Len(queue[c]) < Cap(c)
\* Receiver::recv on channel c yields None: every Sender is gone and nothing is buffered
RecvClosed(c) == txOwner[c] = "dropped" /\ queue[c] = <<>>

\* ---------------------------------------------------------------- main
\* Args::parse: clap ends the process with a usage error on an unparsable
\* command line, before anything else of main runs.
MainParse ==
  /\ mainPc = "parse"
  /\ IF args.parsed
       THEN mainPc' = "channels" /\ UNCHANGED mainResult
       ELSE mainPc' = "done" /\ mainResult' = "ErrArgs"
  /\ UNCHANGED <<envVars, actor, joinRes, txOwner, rxOwner, queue, wiringVars,
                 reporterCfg, netlinkVars, swssVars, ipfixVars, reporterVars,
                 firstFailed>>

MainChannels_SenderDiscarded ==
  /\ mainPc = "channels"
  /\ txOwner' = [c \in Chans |-> IF c = "command" THEN "dropped" ELSE "main"]
  /\ rxOwner' = [c \in Chans |-> "main"]
  /\ queue' = [c \in Chans |-> <<>>]
  /\ mainPc' = "new_netlink"
  /\ UNCHANGED <<envVars, mainResult, actor, joinRes, wiringVars, reporterCfg,
                 netlinkVars, swssVars, ipfixVars, reporterVars, firstFailed>>

\* the four channel(..) calls: main holds all eight endpoints
MainChannels ==
  /\ mainPc = "channels"
  /\ txOwner' = [c \in Chans |-> "main"]
  /\ rxOwner' = [c \in Chans |-> "main"]
  /\ queue' = [c \in Chans |-> <<>>]
  /\ mainPc' = "new_netlink"
  /\ UNCHANGED <<envVars, mainResult, actor, joinRes, wiringVars, reporterCfg,
                 netlinkVars, swssVars, ipfixVars, reporterVars, firstFailed>>

\* get_genl_family_group + NetlinkActor::new: yields an actor whatever the
\* family and group names are; the command receiver moves into it.
MainNewNetlink ==
  /\ mainPc = "new_netlink"
  /\ actor' = [actor EXCEPT !["netlink"] = "built"]
  /\ rxOwner' = [rxOwner EXCEPT !["command"] = "netlink"]
  /\ mainPc' = "netlink_add_recipient"
  /\ UNCHANGED <<envVars, mainResult, joinRes, txOwner, queue, wiringVars, reporterCfg,
                 netlinkVars, swssVars, ipfixVars, reporterVars, firstFailed>>

MainNetlinkAddRecipient_Forgotten ==
  /\ mainPc = "netlink_add_recipient"
  /\ mainPc' = "new_ipfix"
  /\ UNCHANGED <<envVars, mainResult, actor, joinRes, txOwner, rxOwner, queue, wiringVars,
                 reporterCfg, netlinkVars, swssVars, ipfixVars, reporterVars,
                 firstFailed>>

\* netlink.add_recipient(socket_sender)
MainNetlinkAddRecipient ==
  /\ mainPc = "netlink_add_recipient"
  /\ netlinkRecipients' = netlinkRecipients \cup {"socket"}
  /\ txOwner' = [txOwner EXCEPT !["socket"] = "netlink"]
  /\ mainPc' = "new_ipfix"
  /\ UNCHANGED <<envVars, mainResult, actor, joinRes, rxOwner, queue, ipfixRecipients,
                 reporterCfg, netlinkVars, swssVars, ipfixVars, reporterVars,
                 firstFailed>>

MainNewIpfix_SpawnedAtOnce ==
  /\ mainPc = "new_ipfix"
  /\ actor' = [actor EXCEPT !["ipfix"] = "running"]
  /\ rxOwner' = [rxOwner EXCEPT !["template"] = "ipfix", !["socket"] = "ipfix"]
  /\ mainPc' = "ipfix_add_recipient"
  /\ UNCHANGED <<envVars, mainResult, joinRes, txOwner, queue, wiringVars, reporterCfg,
                 netlinkVars, swssVars, ipfixVars, reporterVars, firstFailed>>

\* IpfixActor::new(ipfix_template_receiver, socket_receiver)
MainNewIpfix ==
  /\ mainPc = "new_ipfix"
  /\ actor' = [actor EXCEPT !["ipfix"] = "built"]
  /\ rxOwner' = [rxOwner EXCEPT !["template"] = "ipfix", !["socket"] = "ipfix"]
  /\ mainPc' = "ipfix_add_recipient"
  /\ UNCHANGED <<envVars, mainResult, joinRes, txOwner, queue, wiringVars, reporterCfg,
                 netlinkVars, swssVars, ipfixVars, reporterVars, firstFailed>>

MainIpfixAddRecipient_Cloned ==
  /\ mainPc = "ipfix_add_recipient"
  /\ ipfixRecipients' = ipfixRecipients \cup {"stats"}
  /\ mainPc' = "new_swss"
  /\ UNCHANGED <<envVars, mainResult, actor, joinRes, txOwner, rxOwner, queue,
                 netlinkRecipients, reporterCfg, netlinkVars, swssVars, ipfixVars,
                 reporterVars, firstFailed>>

\* ipfix.add_recipient(saistats_sender)
MainIpfixAddRecipient ==
  /\ mainPc = "ipfix_add_recipient"
  /\ ipfixRecipients' = ipfixRecipients \cup {"stats"}
  /\ txOwner' = [txOwner EXCEPT !["stats"] = "ipfix"]
  /\ mainPc' = "new_swss"
  /\ UNCHANGED <<envVars, mainResult, actor, joinRes, rxOwner, queue, netlinkRecipients,
                 reporterCfg, netlinkVars, swssVars, ipfixVars, reporterVars,
                 firstFailed>>

\* SwssActor::new(ipfix_template_sender) returned Ok(actor)
MainNewSwssOk ==
  /\ mainPc = "new_swss"
  /\ actor' = [actor EXCEPT !["swss"] = "built"]
  /\ txOwner' = [txOwner EXCEPT !["template"] = "swss"]
  /\ mainPc' = "reporter_config"
  /\ UNCHANGED <<envVars, mainResult, joinRes, rxOwner, queue, wiringVars, reporterCfg,
                 netlinkVars, swssVars, ipfixVars, reporterVars, firstFailed>>

MainNewSwssErr_LoggedOnly ==
  /\ mainPc = "new_swss"
  /\ mainResult' = "ErrSwssNew"
  /\ txOwner' = [txOwner EXCEPT !["template"] = "dropped"]
  /\ mainPc' = "reporter_config"
  /\ UNCHANGED <<envVars, actor, joinRes, rxOwner, queue, wiringVars, reporterCfg,
                 netlinkVars, swssVars, ipfixVars, reporterVars, firstFailed>>

\* SwssActor::new returned Err(e): main returns it; every local is dropped,
\* the two actors already built among them.
MainNewSwssErr ==
  /\ mainPc = "new_swss"
  /\ actor' = [a \in Actors |-> IF actor[a] = "built" THEN "dropped" ELSE actor[a]]
  /\ txOwner' = [c \in Chans |-> "dropped"]
  /\ rxOwner' = [c \in Chans |-> "dropped"]
  /\ queue' = [c \in Chans |-> <<>>]
  /\ mainPc' = "done"
  /\ mainResult' = "ErrSwssNew"
  /\ UNCHANGED <<envVars, joinRes, wiringVars, reporterCfg, netlinkVars, swssVars,
                 ipfixVars, reporterVars, firstFailed>>

MaxStatsLimit_Unchecked(m) == Some(m)

\* max_stats_per_report of StatsReporterConfig: 0 maps to None.  The cast
\* u32 -> usize widens, so it keeps the value.
MaxStatsLimit(m) == IF m = 0 THEN None ELSE Some(m)

MainReporterConfig_AlwaysBuild ==
  /\ mainPc = "reporter_config"
  /\ reporterCfg' = Some([interval |-> args.stats_interval,
                          detailed |-> args.detailed_stats,
                          max_stats_per_report |->
                            MaxStatsLimit(args.max_stats_per_report)])
  /\ actor' = [actor EXCEPT !["reporter"] = "built"]
  /\ rxOwner' = [rxOwner EXCEPT !["stats"] = "reporter"]
  /\ mainPc' = "spawn_netlink"
  /\ UNCHANGED <<envVars, mainResult, joinRes, txOwner, queue, wiringVars, netlinkVars,
                 swssVars, ipfixVars, reporterVars, firstFailed>>

MainReporterConfig_KeepReceiver ==
  /\ mainPc = "reporter_config"
  /\ IF args.enable_stats
       THEN /\ reporterCfg' = Some([interval |-> args.stats_interval,
                                    detailed |-> args.detailed_stats,
                                    max_stats_per_report |->
                                      MaxStatsLimit(args.max_stats_per_report)])
            /\ actor' = [actor EXCEPT !["reporter"] = "built"]
            /\ rxOwner' = [rxOwner EXCEPT !["stats"] = "reporter"]
            /\ UNCHANGED queue
       ELSE /\ UNCHANGED <<reporterCfg, actor, rxOwner, queue>>
  /\ mainPc' = "spawn_netlink"
  /\ UNCHANGED <<envVars, mainResult, joinRes, txOwner, wiringVars, netlinkVars, swssVars,
                 ipfixVars, reporterVars, firstFailed>>

\* let stats_reporter = if args.enable_stats { Some(StatsReporterActor::new(..)) }
\*                      else { drop(saistats_receiver); None }
MainReporterConfig ==
  /\ mainPc = "reporter_config"
  /\ IF args.enable_stats
       THEN /\ reporterCfg' = Some([interval |-> args.stats_interval,
                                    detailed |-> args.detailed_stats,
                                    max_stats_per_report |->
                                      MaxStatsLimit(args.max_stats_per_report)])
            /\ actor' = [actor EXCEPT !["reporter"] = "built"]
            /\ rxOwner' = [rxOwner EXCEPT !["stats"] = "reporter"]
            /\ UNCHANGED queue
       ELSE /\ rxOwner' = [rxOwner EXCEPT !["stats"] = "dropped"]
            /\ queue' = [queue EXCEPT !["stats"] = <<>>]
            /\ UNCHANGED <<reporterCfg, actor>>
  /\ mainPc' = "spawn_netlink"
  /\ UNCHANGED <<envVars, mainResult, joinRes, txOwner, wiringVars, netlinkVars, swssVars,
                 ipfixVars, reporterVars, firstFailed>>

SpawnOrder_ReporterAfterJoins == <<"netlink", "ipfix", "swss">>

\* the order of the spawn calls and of the awaits on the join handles
SpawnOrder == <<"netlink", "ipfix", "swss", "reporter">>
JoinOrder == <<"netlink", "ipfix", "swss", "reporter">>

\* position following "<phase>_<a>" in the given order, or `last` after its end
PcAfter(phase, order, a, last) ==
  LET i == CHOOSE k \in 1..Len(order) : order[k] = a
  IN IF i < Len(order) THEN phase \o "_" \o order[i + 1] ELSE last

\* spawn(async move { XActor::run(x).await; }): the task may run from now on.
\* The reporter is spawned only if one was constructed.
MainSpawn(a) ==
  /\ mainPc = "spawn_" \o a
  /\ IF actor[a] = "built"
       THEN actor' = [actor EXCEPT ![a] = "running"]
       ELSE UNCHANGED actor
  /\ mainPc' = PcAfter("spawn", SpawnOrder, a, "join_" \o JoinOrder[1])
  /\ UNCHANGED <<envVars, mainResult, joinRes, txOwner, rxOwner, queue, wiringVars,
                 reporterCfg, netlinkVars, swssVars, ipfixVars, reporterVars,
                 firstFailed>>

JoinReady_NoWait(a) == TRUE

\* handle.await resolves once the task has ended (returned or panicked)
JoinReady(a) == actor[a] \in {"ok", "failed"}

\* the Result a JoinHandle yields: Ok(()) when the task's block ran to its end,
\* whatever run() returned; Err(JoinError) when the task panicked
JoinValue(a) == IF actor[a] = "failed" THEN "Err" ELSE "Ok"

\* let x_result = x_handle.await; the reporter's only if a handle exists
MainJoin(a) ==
  /\ mainPc = "join_" \o a
  /\ IF actor[a] = "none"
       THEN joinRes' = [joinRes EXCEPT ![a] = "None"]
       ELSE /\ JoinReady(a)
            /\ joinRes' = [joinRes EXCEPT ![a] = JoinValue(a)]
  /\ mainPc' = PcAfter("join", JoinOrder, a, "match")
  /\ UNCHANGED <<envVars, mainResult, actor, txOwner, rxOwner, queue, wiringVars,
                 reporterCfg, netlinkVars, swssVars, ipfixVars, reporterVars,
                 firstFailed>>

MatchResults4_ReporterIgnored(n, i, s, r) ==
  IF n = "Err" THEN "ErrNetlink"
  ELSE IF i = "Err" THEN "ErrIpfix"
  ELSE IF s = "Err" THEN "ErrSwss"
  ELSE "Ok"

MatchResults4_Reordered(n, i, s, r) ==
  IF n = "Ok" /\ i = "Ok" /\ s = "Ok" /\ r = "Ok" THEN "Ok"
  ELSE IF r = "Err" THEN "ErrReporter"
  ELSE IF n = "Err" THEN "ErrNetlink"
  ELSE IF i = "Err" THEN "ErrIpfix"
  ELSE "ErrSwss"

\* match (netlink_result, ipfix_result, swss_result, reporter_result): the
\* first arm that matches, top to bottom
MatchResults4(n, i, s, r) ==
  IF n = "Ok" /\ i = "Ok" /\ s = "Ok" /\ r = "Ok" THEN "Ok"
  ELSE IF n = "Err" THEN "ErrNetlink"
  ELSE IF i = "Err" THEN "ErrIpfix"
  ELSE IF s = "Err" THEN "ErrSwss"
  ELSE "ErrReporter"

\* match (netlink_result, ipfix_result, swss_result)
MatchResults3(n, i, s) ==
  IF n = "Ok" /\ i = "Ok" /\ s = "Ok" THEN "Ok"
  ELSE IF n = "Err" THEN "ErrNetlink"
  ELSE IF i = "Err" THEN "ErrIpfix"
  ELSE "ErrSwss"

\* if let Some(reporter_result) = reporter_result { match 4 } else { match 3 };
\* main returns and its last local, the command sender, is dropped
MainMatch ==
  /\ mainPc = "match"
  /\ mainResult' =
       IF joinRes["reporter"] # "None"
         THEN MatchResults4(joinRes["netlink"], joinRes["ipfix"], joinRes["swss"],
                            joinRes["reporter"])
         ELSE MatchResults3(joinRes["netlink"], joinRes["ipfix"], joinRes["swss"])
  /\ DropEndsOf({"main"})
  /\ mainPc' = "done"
  /\ UNCHANGED <<envVars, actor, joinRes, wiringVars, reporterCfg, netlinkVars, swssVars,
                 ipfixVars, reporterVars, firstFailed>>

MainStep ==
  \/ MainParse \/ MainChannels \/ MainNewNetlink \/ MainNetlinkAddRecipient
  \/ MainNewIpfix \/ MainIpfixAddRecipient \/ MainNewSwssOk \/ MainNewSwssErr
  \/ MainReporterConfig
  \/ \E a \in Actors : MainSpawn(a)
  \/ \E a \in Actors : MainJoin(a)
  \/ MainMatch

\* ------------------------------------------------------- actor life cycle
\* Unrecoverable errors are injected in the runs chosen for them; the other
\* runs exercise the channels with every actor healthy.
FaultsAllowed == faults

\* The task of actor a ends: "ok" when its block ran to the end, "failed" when
\* it panicked.  Either way the actor value is dropped, with all its endpoints
\* and its private state (the *Gone conjuncts below).
TaskEnds(a, how) ==
  /\ actor[a] = "running"
  /\ actor' = [actor EXCEPT ![a] = how]
  /\ DropEndsOf({a})
  /\ firstFailed' = IF how = "failed" /\ firstFailed = "none" THEN a ELSE firstFailed

\* ------------------------------------------------------------ Frame Source
FrameBudget == IF burst \/ faults THEN 1 ELSE MaxFrames

\* a Template Set, and a Data Set of n whole records, followed by a cut-off
\* record when trunc
TemplateSet == [kind |-> "tmpl", n |-> 0, trunc |-> FALSE]
DataSet(n, trunc) == [kind |-> "data", n |-> n, trunc |-> trunc]

\* the IPFIX messages the socket may deliver as frame number i: one whose
\* header length disagrees with the buffer (bad), a Data Set of MaxRecs
\* records, and a Data Set with a cut-off record followed by a Template Set
\* and a further Data Set
FramesAt(i) ==
  IF burst
    THEN {[id |-> i, bad |-> FALSE, sets |-> <<DataSet(BurstRecs, FALSE)>>]}
    ELSE {[id |-> i, bad |-> TRUE, sets |-> <<DataSet(1, FALSE)>>],
          [id |-> i, bad |-> FALSE, sets |-> <<DataSet(MaxRecs, FALSE)>>],
          [id |-> i, bad |-> FALSE,
           sets |-> <<DataSet(1, TRUE), TemplateSet, DataSet(1, FALSE)>>]}

NetlinkGone == netlinkPending' = None /\ framesSeen' = 0 /\ UNCHANGED sentFrames

\* a datagram arrives on the multicast socket
NetlinkReceive ==
  /\ actor["netlink"] = "running"
  /\ familyOk
  /\ netlinkPending = None
  /\ framesSeen < FrameBudget
  /\ \E f \in FramesAt(framesSeen + 1) : netlinkPending' = Some(f)
  /\ framesSeen' = framesSeen + 1
  /\ UNCHANGED <<envVars, mainVars, actor, txOwner, rxOwner, queue, wiringVars,
                 sentFrames, swssVars, ipfixVars, reporterVars, firstFailed>>

\* the frame is sent to every registered recipient; a full channel suspends
\* the actor (the action is not enabled), a closed one loses the frame
NetlinkForward ==
  /\ actor["netlink"] = "running"
  /\ netlinkPending # None
  /\ LET f == netlinkPending[1] IN
       IF "socket" \notin netlinkRecipients
         THEN sentFrames' = Append(sentFrames, f.id) /\ UNCHANGED queue
       ELSE IF SendFails("socket")
         THEN UNCHANGED <<sentFrames, queue>>
       ELSE /\ SendFits("socket")
            /\ queue' = [queue EXCEPT !["socket"] = Append(@, f)]
            /\ sentFrames' = Append(sentFrames, f.id)
  /\ netlinkPending' = None
  /\ UNCHANGED <<envVars, mainVars, actor, txOwner, rxOwner, wiringVars, framesSeen,
                 swssVars, ipfixVars, reporterVars, firstFailed>>

\* the transport is exhausted: run returns
NetlinkExit ==
  /\ familyOk
  /\ netlinkPending = None
  /\ TaskEnds("netlink", "ok")
  /\ NetlinkGone
  /\ UNCHANGED <<envVars, mainVars, wiringVars, swssVars, ipfixVars, reporterVars>>

\* unrecoverable transport error (always the outcome when the family or group
\* does not exist)
NetlinkFail ==
  /\ FaultsAllowed
  /\ TaskEnds("netlink", "failed")
  /\ NetlinkGone
  /\ UNCHANGED <<envVars, mainVars, wiringVars, swssVars, ipfixVars, reporterVars>>

\* --------------------------------------------------------- Template Source
\* The runs in which the configuration database never stops changing: the
\* Template Source publishes without end (the healthy runs with reporting
\* disabled); in the others it publishes MaxTemplates updates.
TemplateFlood == ~faults /\ ~burst /\ ~args.enable_stats
\* the number of the next update; in a flood the last number is reused
NextTemplate == IF tmplSent < MaxTemplates THEN tmplSent + 1 ELSE MaxTemplates

\* a table row becomes a TemplateUpdate and is sent to the Decoding Actor
SwssPublish ==
  /\ actor["swss"] = "running"
  /\ tmplSent < MaxTemplates \/ TemplateFlood
  /\ \E op \in {"Define", "Withdraw"} :
       IF SendFails("template")
         THEN UNCHANGED queue
         ELSE /\ SendFits("template")
              /\ queue' = [queue EXCEPT !["template"] =
                             Append(@, [op |-> op, id |-> <<"swss", NextTemplate>>])]
  /\ tmplSent' = NextTemplate
  /\ UNCHANGED <<envVars, mainVars, actor, txOwner, rxOwner, wiringVars, netlinkVars,
                 ipfixVars, reporterVars, firstFailed>>

SwssExit ==
  /\ TaskEnds("swss", "ok")
  /\ tmplSent' = 0
  /\ UNCHANGED <<envVars, mainVars, wiringVars, netlinkVars, ipfixVars, reporterVars>>

SwssFail ==
  /\ FaultsAllowed
  /\ TaskEnds("swss", "failed")
  /\ tmplSent' = 0
  /\ UNCHANGED <<envVars, mainVars, wiringVars, netlinkVars, ipfixVars, reporterVars>>

\* ---------------------------------------------------------- Decoding Actor
IpfixGone ==
  /\ tmplTable' = None /\ lastOp' = None /\ ipfixSets' = <<>> /\ lastDiag' = "none"
  /\ ipfixCur' = None /\ ipfixPending' = 0
  /\ UNCHANGED <<takenFrames, doneFrames>>

ApplyUpdate_WithdrawIgnored(table, u) == IF u.op = "Define" THEN Some(u.id) ELSE table

\* Define inserts or replaces the Template, Withdraw removes it
ApplyUpdate(table, u) == IF u.op = "Define" THEN Some(u.id) ELSE None

\* a TemplateUpdate is taken and applied to the Template table
IpfixRecvTemplate ==
  /\ actor["ipfix"] = "running"
  /\ ipfixCur = None
  /\ queue["template"] # <<>>
  /\ tmplTable' = ApplyUpdate(tmplTable, Head(queue["template"]))
  /\ lastOp' = Some(Head(queue["template"]))
  /\ lastDiag' = "none"
  /\ queue' = [queue EXCEPT !["template"] = Tail(@)]
  /\ UNCHANGED <<envVars, mainVars, actor, txOwner, rxOwner, wiringVars, netlinkVars,
                 swssVars, takenFrames, doneFrames, ipfixSets, ipfixCur,
                 ipfixPending, reporterVars, firstFailed>>

IpfixRecvFrame_TemplatesFirst ==
  /\ actor["ipfix"] = "running"
  /\ ipfixCur = None
  /\ queue["template"] = <<>>
  /\ queue["socket"] # <<>>
  /\ LET f == Head(queue["socket"]) IN
       /\ takenFrames' = Append(takenFrames, f.id)
       /\ IF f.bad \/ f.sets = <<>>
            THEN /\ doneFrames' = Append(doneFrames, f.id)
                 /\ lastDiag' = (IF f.bad THEN "frame" ELSE "none")
                 /\ UNCHANGED <<ipfixCur, ipfixSets>>
            ELSE /\ ipfixCur' = Some(f.id)
                 /\ ipfixSets' = f.sets
                 /\ lastDiag' = "none"
                 /\ UNCHANGED doneFrames
  /\ queue' = [queue EXCEPT !["socket"] = Tail(@)]
  /\ UNCHANGED <<envVars, mainVars, actor, txOwner, rxOwner, wiringVars, netlinkVars,
                 swssVars, tmplTable, lastOp, ipfixPending, reporterVars, firstFailed>>

\* a RawFrame is taken; one with a malformed header is dropped whole
IpfixRecvFrame ==
  /\ actor["ipfix"] = "running"
  /\ ipfixCur = None
  /\ queue["socket"] # <<>>
  /\ LET f == Head(queue["socket"]) IN
       /\ takenFrames' = Append(takenFrames, f.id)
       /\ IF f.bad \/ f.sets = <<>>
            THEN /\ doneFrames' = Append(doneFrames, f.id)
                 /\ lastDiag' = (IF f.bad THEN "frame" ELSE "none")
                 /\ UNCHANGED <<ipfixCur, ipfixSets>>
            ELSE /\ ipfixCur' = Some(f.id)
                 /\ ipfixSets' = f.sets
                 /\ lastDiag' = "none"
                 /\ UNCHANGED doneFrames
  /\ queue' = [queue EXCEPT !["socket"] = Tail(@)]
  /\ UNCHANGED <<envVars, mainVars, actor, txOwner, rxOwner, wiringVars, netlinkVars,
                 swssVars, tmplTable, lastOp, ipfixPending, reporterVars, firstFailed>>

\* the frame in processing is finished when nothing of it is left
FrameDoneIf(finished) ==
  IF finished
    THEN ipfixCur' = None /\ doneFrames' = Append(doneFrames, ipfixCur[1])
    ELSE UNCHANGED <<ipfixCur, doneFrames>>

IpfixNextSet_AbortOnUnknown ==
  /\ actor["ipfix"] = "running"
  /\ ipfixCur # None
  /\ ipfixPending = 0
  /\ ipfixSets # <<>>
  /\ LET set == Head(ipfixSets) IN
       IF set.kind = "tmpl"
         THEN /\ tmplTable' = Some(<<"frame", ipfixCur[1]>>)
              /\ lastOp' = Some([op |-> "Define", id |-> <<"frame", ipfixCur[1]>>])
              /\ ipfixSets' = Tail(ipfixSets)
              /\ FrameDoneIf(Tail(ipfixSets) = <<>>)
              /\ lastDiag' = "none"
              /\ UNCHANGED ipfixPending
         ELSE IF tmplTable = None
           THEN /\ ipfixSets' = <<>>
                /\ FrameDoneIf(TRUE)
                /\ lastDiag' = "set"
                /\ UNCHANGED <<tmplTable, lastOp, ipfixPending>>
           ELSE /\ ipfixPending' = set.n
                /\ ipfixSets' = Tail(ipfixSets)
                /\ lastDiag' = (IF set.trunc THEN "record" ELSE "none")
                /\ FrameDoneIf(set.n = 0 /\ Tail(ipfixSets) = <<>>)
                /\ UNCHANGED <<tmplTable, lastOp>>
  /\ UNCHANGED <<envVars, mainVars, actor, txOwner, rxOwner, queue, wiringVars,
                 netlinkVars, swssVars, takenFrames, reporterVars, firstFailed>>

\* the next Set of the frame is walked.  A Template Set acts as a Define.  A
\* Data Set without a Template is dropped with a diagnostic and the walk goes
\* on; with one, its whole records are decoded (to be delivered one by one)
\* and a cut-off record is dropped with a diagnostic.
IpfixNextSet ==
  /\ actor["ipfix"] = "running"
  /\ ipfixCur # None
  /\ ipfixPending = 0
  /\ ipfixSets # <<>>
  /\ LET set == Head(ipfixSets)
         recs == IF set.kind = "data" /\ tmplTable # None THEN set.n ELSE 0
     IN /\ IF set.kind = "tmpl"
             THEN /\ tmplTable' =
                       ApplyUpdate(tmplTable, [op |-> "Define", id |-> <<"frame", ipfixCur[1]>>])
                  /\ lastOp' = Some([op |-> "Define", id |-> <<"frame", ipfixCur[1]>>])
             ELSE UNCHANGED <<tmplTable, lastOp>>
        /\ ipfixPending' = recs
        /\ lastDiag' = (IF set.kind = "data" /\ tmplTable = None THEN "set"
                        ELSE IF set.kind = "data" /\ set.trunc THEN "record"
                        ELSE "none")
        /\ ipfixSets' = Tail(ipfixSets)
        /\ FrameDoneIf(recs = 0 /\ Tail(ipfixSets) = <<>>)
  /\ UNCHANGED <<envVars, mainVars, actor, txOwner, rxOwner, queue, wiringVars,
                 netlinkVars, swssVars, takenFrames, reporterVars, firstFailed>>

\* one StatisticsRecord, tagged with the frame and its place in the frame
\* (Sets left, records left), goes to every registered
\* recipient: enqueued, or discarded at once when the Receiver is gone; a full
\* channel suspends
IpfixDeliver ==
  /\ actor["ipfix"] = "running"
  /\ ipfixCur # None
  /\ ipfixPending > 0
  /\ IF "stats" \notin ipfixRecipients \/ SendFails("stats")
       THEN UNCHANGED queue
       ELSE /\ SendFits("stats")
            /\ queue' = [queue EXCEPT !["stats"] =
                           Append(@, <<ipfixCur[1], Len(ipfixSets), ipfixPending>>)]
  /\ ipfixPending' = ipfixPending - 1
  /\ lastDiag' = "none"
  /\ FrameDoneIf(ipfixPending = 1 /\ ipfixSets = <<>>)
  /\ UNCHANGED <<envVars, mainVars, actor, txOwner, rxOwner, wiringVars, netlinkVars,
                 swssVars, takenFrames, tmplTable, lastOp, ipfixSets, reporterVars,
                 firstFailed>>

IpfixExit_OnEitherClosed ==
  /\ ipfixCur = None
  /\ RecvClosed("socket") \/ RecvClosed("template")
  /\ TaskEnds("ipfix", "ok")
  /\ IpfixGone
  /\ UNCHANGED <<envVars, mainVars, wiringVars, netlinkVars, swssVars, reporterVars>>

\* both inbound channels are closed and drained: run returns
IpfixExit ==
  /\ ipfixCur = None
  /\ RecvClosed("socket")
  /\ RecvClosed("template")
  /\ TaskEnds("ipfix", "ok")
  /\ IpfixGone
  /\ UNCHANGED <<envVars, mainVars, wiringVars, netlinkVars, swssVars, reporterVars>>

IpfixFail ==
  /\ FaultsAllowed
  /\ TaskEnds("ipfix", "failed")
  /\ IpfixGone
  /\ UNCHANGED <<envVars, mainVars, wiringVars, netlinkVars, swssVars, reporterVars>>

\* --------------------------------------------------------- Reporting Actor
\* the report of a batch under the configured limit: the earliest records up
\* to the limit, and how many were left out
Render(b, limit) ==
  LET shown == IF limit = None \/ Len(b) <= limit[1] THEN Len(b) ELSE limit[1]
  IN [shown |-> SubSeq(b, 1, shown), omitted |-> Len(b) - shown]

ReporterRecv ==
  /\ actor["reporter"] = "running"
  /\ queue["stats"] # <<>>
  /\ Len(batch) < MaxBatch
  /\ batch' = Append(batch, Head(queue["stats"]))
  /\ lastReport' = None
  /\ queue' = [queue EXCEPT !["stats"] = Tail(@)]
  /\ UNCHANGED <<envVars, mainVars, actor, txOwner, rxOwner, wiringVars, netlinkVars,
                 swssVars, ipfixVars, firstFailed>>

\* interval boundary: the batch is rendered and a new one started
ReporterTick ==
  /\ actor["reporter"] = "running"
  /\ batch # <<>>
  /\ lastReport' = Some(Render(batch, reporterCfg[1].max_stats_per_report))
  /\ batch' = <<>>
  /\ UNCHANGED <<envVars, mainVars, actor, txOwner, rxOwner, queue, wiringVars,
                 netlinkVars, swssVars, ipfixVars, firstFailed>>

\* the statistics channel is closed and drained: a partial batch is flushed
\* once, run returns
ReporterExit ==
  /\ RecvClosed("stats")
  /\ lastReport' = IF batch # <<>>
                     THEN Some(Render(batch, reporterCfg[1].max_stats_per_report))
                     ELSE lastReport
  /\ batch' = <<>>
  /\ TaskEnds("reporter", "ok")
  /\ UNCHANGED <<envVars, mainVars, wiringVars, netlinkVars, swssVars, ipfixVars>>

ReporterFail ==
  /\ FaultsAllowed
  /\ TaskEnds("reporter", "failed")
  /\ batch' = <<>>
  /\ lastReport' = None
  /\ UNCHANGED <<envVars, mainVars, wiringVars, netlinkVars, swssVars, ipfixVars>>

ActorStep ==
  \/ NetlinkReceive \/ NetlinkForward \/ NetlinkExit \/ NetlinkFail
  \/ SwssPublish \/ SwssExit \/ SwssFail
  \/ IpfixRecvTemplate \/ IpfixRecvFrame \/ IpfixNextSet \/ IpfixDeliver
  \/ IpfixExit \/ IpfixFail
  \/ ReporterRecv \/ ReporterTick \/ ReporterExit \/ ReporterFail

Next == MainStep \/ ActorStep

Spec == Init /\ [][Next]_vars

\* main is a task of the runtime like the others: a step of it that stays
\* possible is eventually taken
FairSpec == Spec /\ WF_vars(MainStep)

\* The runtime polls every spawned task that can make progress, and the
\* Decoding Actor's select takes a branch that stays ready.  What arrives from
\* outside (datagrams, database changes, unrecoverable errors, the end of a
\* source) is not forced.
FairPipeline ==
  /\ Spec
  /\ WF_vars(MainStep)
  /\ WF_vars(NetlinkForward)
  /\ WF_vars(IpfixRecvTemplate) /\ WF_vars(IpfixRecvFrame)
  /\ WF_vars(IpfixNextSet) /\ WF_vars(IpfixDeliver) /\ WF_vars(IpfixExit)
  /\ WF_vars(ReporterRecv) /\ WF_vars(ReporterTick) /\ WF_vars(ReporterExit)

\* ------------------------------------------------------------- properties
IsPrefix(s, t) == Len(s) <= Len(t) /\ SubSeq(t, 1, Len(s)) = s
FrameIds(q) == [k \in 1..Len(q) |-> q[k].id]
Increasing(s) == \A j, k \in 1..Len(s) : j < k => s[j] < s[k]

\* main went through the result match and returned
Returned == mainResult \in {"Ok", "ErrNetlink", "ErrIpfix", "ErrSwss", "ErrReporter"}
Failed == {a \in Actors : actor[a] = "failed"}
ErrOf(a) ==
  CASE a = "netlink" -> "ErrNetlink"
    [] a = "ipfix" -> "ErrIpfix"
    [] a = "swss" -> "ErrSwss"
    [] a = "reporter" -> "ErrReporter"
Priority == <<"netlink", "ipfix", "swss", "reporter">>

\* C1: once main has returned from the result match, it returned success
\* exactly when no actor task failed and an error exactly when at least one
\* did, with four actors (reporting enabled) as with three (disabled).
C1_FailsIffSomeActorFailed ==
  Returned =>
    /\ (mainResult = "Ok") <=> (Failed = {})
    /\ (mainResult # "Ok") <=> (Failed # {})
    /\ actor["reporter"] \in (IF args.enable_stats THEN {"ok", "failed"} ELSE {"none"})

C1_Witness == mainResult = "ErrReporter" /\ args.enable_stats /\ Failed = {"reporter"}

\* C2: the error main returns names the failed actor that comes first in the
\* order netlink, ipfix, swss, reporter, whichever actor failed first in time.
C2_FirstFailureInPriorityOrder ==
  Returned =>
    \A k \in 1..Len(Priority) :
      (mainResult = ErrOf(Priority[k])) <=>
        /\ Priority[k] \in Failed
        /\ \A j \in 1..(k - 1) : Priority[j] \notin Failed

C2_Witness ==
  mainResult = "ErrNetlink" /\ firstFailed = "reporter" /\ Failed = {"netlink", "reporter"}

\* C3: main has not returned while a spawned actor is still running, also not
\* after another actor's failure has already been observed.
C3_ReturnsOnlyAfterAllActorsEnded ==
  (mainPc \in {"match", "done"}) => \A a \in Actors : actor[a] \notin {"built", "running"}

C3_Witness ==
  /\ mainPc = "join_ipfix" /\ joinRes["netlink"] = "Err" /\ mainResult = "running"
  /\ actor["ipfix"] = "running" /\ actor["swss"] = "running"

\* the Decoding Actor holds a record it cannot hand over now
IpfixSuspended ==
  actor["ipfix"] = "running" /\ ipfixPending > 0 /\ ~ENABLED IpfixDeliver

\* C4: with reporting disabled the statistics Receiver is gone before any
\* actor runs, no record is ever buffered, and the Decoding Actor is never
\* suspended on a delivery, however many records it has produced.
C4_DisabledStatsNeverBlock ==
  ~args.enable_stats =>
    /\ (\E a \in Actors : actor[a] = "running") => rxOwner["stats"] = "dropped"
    /\ queue["stats"] = <<>>
    /\ ~IpfixSuspended

C4_Witness ==
  /\ ~args.enable_stats /\ actor["ipfix"] = "running" /\ ipfixCur # None
  /\ ipfixSets = <<>> /\ ipfixPending > 0 /\ BurstRecs - ipfixPending > StatsCap

\* the reporter exists exactly when reporting is enabled, and disabled
\* reporting leaves nothing to join
ReporterIffEnabled ==
  /\ (mainPc \in {"spawn_netlink", "spawn_ipfix", "spawn_swss", "spawn_reporter"})
       => ((actor["reporter"] = "built") <=> args.enable_stats)
  /\ (mainPc \in {"join_netlink", "join_ipfix", "join_swss", "join_reporter", "match"}
        \/ Returned)
       => ((actor["reporter"] \in {"running", "ok", "failed"}) <=> args.enable_stats)
  /\ ~args.enable_stats => actor["reporter"] = "none" /\ reporterCfg = None
  /\ (~args.enable_stats /\ (mainPc = "match" \/ Returned)) => joinRes["reporter"] = "None"
ThreeEndedCleanly ==
  \A a \in {"netlink", "ipfix", "swss"} : actor[a] = "ok"

\* C5: the Reporting Actor is built and spawned iff reporting is enabled;
\* disabled, three actors are started and once the three have ended cleanly
\* main eventually returns success.
C5_ReporterOptional ==
  /\ []ReporterIffEnabled
  /\ (~args.enable_stats /\ ThreeEndedCleanly) ~> (mainResult = "Ok")

C5_Witness ==
  /\ ~args.enable_stats /\ mainResult = "Ok" /\ actor["reporter"] = "none"
  /\ ThreeEndedCleanly

\* C6: the frames taken by the Decoding Actor are the frames the Frame Source
\* sent, in order, without gap or repetition; what is sent and not yet taken
\* is exactly what the channel buffers; a frame is taken only when the one
\* before it is finished.
C6_NoFrameLostOrReordered ==
  /\ IsPrefix(takenFrames, sentFrames)
  /\ Increasing(sentFrames)
  /\ rxOwner["socket"] # "dropped"
       => sentFrames = takenFrames \o FrameIds(queue["socket"])
  /\ IsPrefix(doneFrames, takenFrames)
  /\ Len(takenFrames) - Len(doneFrames) <= 1
  /\ actor["ipfix"] = "running"
       => (Len(takenFrames) - Len(doneFrames) = IF ipfixCur = None THEN 0 ELSE 1)

C6_Witness ==
  /\ actor["netlink"] = "running" /\ netlinkPending # None /\ ~ENABLED NetlinkForward
  /\ sentFrames = <<1>> /\ takenFrames = <<>>

\* C7: no channel ever buffers more than its capacity: 1, 1, 1 and 100.
C7_WithinCapacity ==
  /\ Len(queue["command"]) <= 1
  /\ Len(queue["socket"]) <= 1
  /\ Len(queue["template"]) <= 1
  /\ Len(queue["stats"]) <= 100

C7_Witness ==
  /\ Len(queue["stats"]) = 100 /\ IpfixSuspended
  /\ Len(queue["socket"]) <= 1

RecipientsReady ==
  /\ actor["netlink"] = "running" => netlinkRecipients = {"socket"}
  /\ actor["ipfix"] = "running" => ipfixRecipients = {"stats"}
RecipientsFrozen ==
  /\ actor["netlink"] \notin {"none", "built"} => netlinkRecipients' = netlinkRecipients
  /\ actor["ipfix"] \notin {"none", "built"} => ipfixRecipients' = ipfixRecipients

\* C8: a running Frame Source or Decoding Actor has its recipient registered,
\* and no recipient list changes once its actor has been spawned.
C8_RecipientsBeforeRun == []RecipientsReady /\ [][RecipientsFrozen]_vars

C8_Witness ==
  /\ actor["netlink"] = "running" /\ netlinkRecipients = {"socket"}
  /\ actor["ipfix"] = "running" /\ ipfixRecipients = {"stats"}

\* a configuration the design calls invalid
ConfigInvalid == ~args.parsed \/ args.stats_interval = 0 \/ ~familyOk

\* C9: with an invalid reporting interval or netlink family/group name no
\* actor task is ever started and main does not return success.
C9_ConfigErrorsFatalBeforeSpawn ==
  ConfigInvalid =>
    /\ \A a \in Actors : actor[a] \notin {"running", "ok", "failed"}
    /\ mainResult # "Ok"

\* C10: the reporter's limit is unlimited for a setting of 0 and the setting
\* itself otherwise, so never a limit of zero records.
C10_ZeroMeansUnlimited ==
  reporterCfg # None =>
    LET m == args.max_stats_per_report
        lim == reporterCfg[1].max_stats_per_report
    IN /\ m = 0 => lim = None
       /\ m > 0 => lim = Some(m)
       /\ lim # Some(0)

C10_Witness ==
  /\ reporterCfg # None /\ args.max_stats_per_report = 0
  /\ reporterCfg[1].max_stats_per_report = None /\ actor["reporter"] = "running"


\* the actors are constructed and main has not returned
Wired ==
  mainPc \in {"spawn_netlink", "spawn_ipfix", "spawn_swss", "spawn_reporter",
              "join_netlink", "join_ipfix", "join_swss", "join_reporter", "match"}

\* C11: once the actors are constructed every data channel has one producer
\* and one consumer in the topology Frame Source -> Decoding Actor <- Template
\* Source, Decoding Actor -> Reporting Actor, an endpoint leaves its actor only
\* by being dropped with it, and main holds no endpoint of the raw-frame,
\* template and statistics channels.
C11_ChannelTopology ==
  Wired =>
    /\ txOwner["socket"] \in {"netlink", "dropped"}
    /\ txOwner["template"] \in {"swss", "dropped"}
    /\ txOwner["stats"] \in {"ipfix", "dropped"}
    /\ rxOwner["socket"] \in {"ipfix", "dropped"}
    /\ rxOwner["template"] \in {"ipfix", "dropped"}
    /\ rxOwner["stats"] \in {IF args.enable_stats THEN "reporter" ELSE "dropped", "dropped"}
    /\ rxOwner["command"] \in {"netlink", "dropped"}
    /\ \A c \in {"socket", "template", "stats"} : txOwner[c] # "main" /\ rxOwner[c] # "main"
    /\ \A a \in Actors : \A c \in Chans :
         (txOwner[c] = a \/ rxOwner[c] = a) => actor[a] \in {"built", "running"}
    /\ netlinkRecipients = {"socket"} /\ ipfixRecipients = {"stats"}

C11_Witness ==
  /\ mainPc = "join_netlink" /\ \A a \in Actors : actor[a] = "running"
  /\ txOwner = [command |-> "main", socket |-> "netlink", template |-> "swss",
                stats |-> "ipfix"]
  /\ rxOwner = [command |-> "netlink", socket |-> "ipfix", template |-> "ipfix",
                stats |-> "reporter"]

\* C18: when main awaits its first join handle, and at every later await,
\* every constructed actor has been spawned; the joins are read in the order
\* netlink, ipfix, swss, reporter.
C18_AllSpawnedBeforeFirstJoin ==
  /\ (mainPc \in {"join_netlink", "join_ipfix", "join_swss", "join_reporter", "match"})
       => /\ \A a \in {"netlink", "ipfix", "swss"} : actor[a] \in {"running", "ok", "failed"}
          /\ actor["reporter"] \in
               (IF args.enable_stats THEN {"running", "ok", "failed"} ELSE {"none"})
  /\ \A k \in 2..Len(JoinOrder) :
       joinRes[JoinOrder[k]] # "pending" => joinRes[JoinOrder[k - 1]] # "pending"
  /\ (\E a \in Actors : joinRes[a] # "pending")
       => mainPc \in {"join_ipfix", "join_swss", "join_reporter", "match", "done"}

C18_Witness ==
  /\ mainPc = "join_netlink" /\ \A a \in Actors : actor[a] = "running"
  /\ \A a \in Actors : joinRes[a] = "pending"

\* C19: when SwssActor::new fails main has returned that error with nothing
\* spawned: the Frame Source and the Decoding Actor are dropped unrun, no
\* Template Source and no Reporting Actor exist, and no join was awaited.
C19_SwssNewFailureStopsStartup ==
  mainResult = "ErrSwssNew" =>
    /\ mainPc = "done"
    /\ actor = [netlink |-> "dropped", ipfix |-> "dropped", swss |-> "none",
                reporter |-> "none"]
    /\ reporterCfg = None
    /\ \A a \in Actors : joinRes[a] = "pending"
    /\ sentFrames = <<>> /\ takenFrames = <<>>

C19_Witness ==
  /\ mainResult = "ErrSwssNew" /\ mainPc = "done"
  /\ actor["netlink"] = "dropped" /\ actor["ipfix"] = "dropped"
  /\ args.enable_stats

\* C20: from the Frame Source's construction until main returns, main holds
\* the command Sender and the command channel is empty, so a running Frame
\* Source can neither receive a command nor see its command channel closed.
C20_CommandChannelInert ==
  /\ queue["command"] = <<>>
  /\ (mainPc \notin {"parse", "channels", "done"}) => txOwner["command"] = "main"
  /\ actor["netlink"] \in {"built", "running"}
       => (rxOwner["command"] = "netlink" /\ ~RecvClosed("command"))

C20_Witness ==
  /\ mainPc = "join_netlink" /\ actor["netlink"] = "running" /\ actor["swss"] = "ok"
  /\ actor["ipfix"] = "failed" /\ txOwner["command"] = "main" /\ queue["command"] = <<>>

\* the Template the table holds is the one the last applied operation left
TableFollowsLastOp ==
  actor["ipfix"] = "running" =>
    tmplTable = (IF lastOp # None /\ lastOp[1].op = "Define"
                   THEN Some(lastOp[1].id) ELSE None)
\* updates are applied in the order received: the one taken is the oldest
TemplateTakenInOrder ==
  (/\ actor'["ipfix"] = "running"
   /\ queue["template"] # <<>> /\ queue'["template"] = Tail(queue["template"]))
    => lastOp' = Some(Head(queue["template"]))
\* a step of the Set walk that leaves a Data Set behind
DataSetWalked ==
  /\ ipfixCur # None /\ ipfixPending = 0 /\ ipfixSets # <<>>
  /\ Head(ipfixSets).kind = "data"
  /\ actor'["ipfix"] = "running" /\ ipfixSets' # ipfixSets
\* a Data Set is decoded iff the operation applied last was a Define
DecodedIffDefined ==
  DataSetWalked =>
    ((ipfixPending' > 0) <=> (lastOp # None /\ lastOp[1].op = "Define"))

\* C12: the Template table always equals the most recently applied Define, by
\* arrival order into the processing loop, whether it came as a TemplateUpdate
\* or as an in-band Template Set, and is empty when the last operation was a
\* Withdraw; a Data Set walked afterwards is decoded exactly when that last
\* operation was a Define.
C12_TemplatePrecedence ==
  /\ []TableFollowsLastOp
  /\ [][TemplateTakenInOrder /\ DecodedIffDefined]_vars

\* frame 1 was decoded under its own in-band Define, the Withdraw arrived
\* after it, and the first Data Set of frame 2 has just been dropped
C12_Witness ==
  /\ actor["ipfix"] = "running" /\ ipfixCur = Some(2)
  /\ lastOp = Some([op |-> "Withdraw", id |-> <<"swss", 1>>]) /\ tmplTable = None
  /\ lastDiag = "set"
  /\ \E k \in 1..Len(queue["stats"]) : queue["stats"][k][1] = 1

\* a frame in processing always has a Set to walk or a record to deliver, and
\* with no record waiting the walk of the next Set can go on
WalkGoesOn ==
  (actor["ipfix"] = "running" /\ ipfixCur # None) =>
    /\ ipfixSets # <<>> \/ ipfixPending > 0
    /\ (ipfixPending = 0) => ENABLED IpfixNextSet
\* the Data Set walked has no Template: nothing is decoded or delivered, the
\* actor runs on, and the Sets after it are all still to be walked
UnknownSetSkipped ==
  (DataSetWalked /\ tmplTable = None) =>
    /\ ipfixPending' = 0
    /\ queue'["stats"] = queue["stats"]
    /\ ipfixSets' = Tail(ipfixSets)
    /\ Tail(ipfixSets) # <<>> => (ipfixCur' = ipfixCur /\ doneFrames' = doneFrames)
    /\ Tail(ipfixSets) = <<>> => (ipfixCur' = None /\ doneFrames' = Append(doneFrames, ipfixCur[1]))

\* C13: a Data Set that has no Template in the table yields zero
\* StatisticsRecords, and the Sets that follow it in the same frame are still
\* walked: the frame is not aborted and the Decoding Actor keeps running.
C13_UnknownTemplateSkipped ==
  /\ []WalkGoesOn
  /\ [][UnknownSetSkipped]_vars

\* nothing defined the Template before frame 1, whose first Data Set was
\* therefore unknown; the Template Set and the Data Set after it were processed
C13_Witness ==
  /\ actor["ipfix"] = "running" /\ actor["swss"] = "running" /\ tmplSent = 0
  /\ ipfixCur = Some(1) /\ tmplTable = Some(<<"frame", 1>>)
  /\ ipfixSets = <<>> /\ ipfixPending = 1

\* between frames, a waiting message of either input can be taken
TakesNextMessage ==
  (actor["ipfix"] = "running" /\ ipfixCur = None) =>
    /\ queue["socket"] # <<>> => ENABLED IpfixRecvFrame
    /\ queue["template"] # <<>> => ENABLED IpfixRecvTemplate
\* the run loop returns only between frames with both inbound channels closed
\* and drained, and where no unrecoverable error is injected it ends in no
\* other way, whatever the frames contained
EndsOnlyWhenInputsClosed ==
  (actor["ipfix"] = "running" /\ actor'["ipfix"] # "running") =>
    /\ ~faults => actor'["ipfix"] = "ok"
    /\ actor'["ipfix"] = "ok" =>
         (ipfixCur = None /\ RecvClosed("socket") /\ RecvClosed("template"))

\* C14: no frame content ends the Decoding Actor's run loop: after a frame
\* with a malformed header, a cut-off record or an unknown Template the actor
\* is still running and takes the next message, and its run loop returns only
\* when both inbound channels are closed.
C14_InputNeverEndsRunLoop ==
  /\ [](TakesNextMessage /\ WalkGoesOn)
  /\ [][EndsOnlyWhenInputsClosed]_vars

\* both frames are processed, the second one dropped for its malformed header,
\* and the actor is running with a TemplateUpdate waiting to be taken
C14_Witness ==
  /\ actor["ipfix"] = "running" /\ ~faults
  /\ doneFrames = <<1, 2>> /\ lastDiag = "frame"
  /\ queue["template"] # <<>>

\* the Reporting Actor closes an interval (or its input ended) and renders
\* the batch it accumulated
Flushed ==
  /\ batch # <<>> /\ batch' = <<>>
  /\ actor'["reporter"] # "failed"
\* what the claim requires of the report of k records under the setting n of
\* the command line, where 0 stands for no limit
TruncatedTo(report, b, n) ==
  IF n # 0 /\ Len(b) > n
    THEN /\ Len(report.shown) = n
         /\ \A j \in 1..n : report.shown[j] = b[j]
         /\ report.omitted = Len(b) - n
    ELSE report.shown = b /\ report.omitted = 0

\* C16: a flushed batch of k records under max_stats_per_report = n holds the
\* n earliest-received records in arrival order and counts k - n omitted ones
\* when k > n, and holds all k records with nothing omitted when k <= n or
\* no limit is set.
C16_ReportTruncation ==
  [][Flushed =>
       /\ lastReport' # None
       /\ TruncatedTo(lastReport'[1], batch, args.max_stats_per_report)]_vars

\* two records arrived in the interval under a limit of one: the report shows
\* one and counts one omitted
C16_Witness ==
  /\ args.max_stats_per_report = 1 /\ lastReport # None
  /\ Len(lastReport[1].shown) = 1 /\ lastReport[1].omitted = 1

\* a message waits in the channel / the Decoding Actor's task has ended
FrameWaits == queue["socket"] # <<>>
UpdateWaits == queue["template"] # <<>>
IpfixEnded == actor["ipfix"] \in {"ok", "failed"}
\* a message leaves an inbound channel only at its head, taken by the
\* Decoding Actor, or with the whole buffer when the Receiver is dropped
LeavesByTaking ==
  /\ (FrameWaits /\ queue'["socket"] # queue["socket"] /\ actor'["ipfix"] = "running"
        /\ Len(queue'["socket"]) <= Len(queue["socket"]))
       => /\ queue'["socket"] = Tail(queue["socket"])
          /\ takenFrames' = Append(takenFrames, Head(queue["socket"]).id)
  /\ (UpdateWaits /\ queue'["template"] # queue["template"] /\ actor'["ipfix"] = "running"
        /\ Len(queue'["template"]) <= Len(queue["template"]))
       => /\ queue'["template"] = Tail(queue["template"])
          /\ lastOp' = Some(Head(queue["template"]))

FrameTaken(i) == \E k \in 1..Len(takenFrames) : takenFrames[k] = i

SourcesEnded ==
  actor["netlink"] \in {"ok", "failed"} /\ actor["swss"] \in {"ok", "failed"}
ReporterEnded == actor["reporter"] \in {"ok", "failed"}
\* with both sources gone no Sender of the Decoding Actor's inputs is left,
\* with the Decoding Actor gone none of the statistics channel, and main
\* returns only when every actor has ended
ClosureCascades ==
  /\ SourcesEnded => (txOwner["socket"] = "dropped" /\ txOwner["template"] = "dropped")
  /\ IpfixEnded => txOwner["stats"] = "dropped"
  /\ Returned => (IpfixEnded /\ (args.enable_stats => ReporterEnded))
\* the Reporting Actor returns only when the statistics channel is closed
\* and drained, and then a partial batch is rendered, once
FlushedOnExit ==
  (actor["reporter"] = "running" /\ actor'["reporter"] = "ok") =>
    /\ RecvClosed("stats")
    /\ batch' = <<>>
    /\ IF batch # <<>>
         THEN lastReport' = Some(Render(batch, reporterCfg[1].max_stats_per_report))
         ELSE lastReport' = lastReport

\* C17: once the Frame Source and the Template Source have both ended, no
\* Sender of the Decoding Actor's inbound channels is left, the Decoding
\* Actor ends, the statistics channel closes, the Reporting Actor (when
\* enabled) flushes a partial batch once and ends, and main returns.
C17_ShutdownCascades ==
  /\ []ClosureCascades
  /\ [][FlushedOnExit]_vars
  /\ SourcesEnded ~> Returned

\* every actor ended cleanly, the Reporting Actor left a report, main
\* returned success
C17_Witness ==
  /\ mainResult = "Ok" /\ args.enable_stats /\ SourcesEnded
  /\ actor["ipfix"] = "ok" /\ actor["reporter"] = "ok"
  /\ lastReport # None /\ batch = <<>>

====
